---- MODULE Spec2Model ----
(***************************************************************************)
(* A model of pasco-cap-analyze: the binary record decoder (grok), the     *)
(* stepped range (frange), the data set assembler (DataSet.__init__), the  *)
(* manifest index (process_archive), the delimited-table export (to_csv)   *)
(* of src/index.py, and the line-table export of src/pascapalyze.py.       *)
(*                                                                         *)
(* A byte is an integer 0..255 and a subfile a sequence of bytes.  A       *)
(* double is the record [s, e, hi, lo] of its IEEE-754 binary64 fields:    *)
(* sign bit, biased exponent (11 bits), and the 52-bit fraction split into *)
(* its high and low 26 bits, so that every field fits a machine integer.   *)
(* A string is a sequence of character codes.                              *)
(***************************************************************************)
EXTENDS Integers, Sequences, FiniteSets, TLC

VARIABLES
    archive,     \* the zip archive: a function from subfile name to its bytes
    call,        \* the arguments of a direct call of grok: [file_name, data_size]
    ret_index,   \* what index.grok returned for call
    ret_script,  \* what pascapalyze.grok returned for call
    ds_args,     \* the arguments of a direct construction of a DataSet
    ds_made,     \* the DataSet constructed from ds_args
    manifest,    \* main.xml: the DataSource elements of the DataRepository
    capstone,    \* the CapstoneFile object built by index.py
    csv,         \* what CapstoneFile.to_csv returned
    script,      \* the run of pascapalyze.process_archive
    contents     \* the records the subfile of a direct call of grok was built from

vars == <<archive, call, ret_index, ret_script, ds_args, ds_made, manifest,
          capstone, csv, script, contents>>

----------------------------------------------------------------------------
(* Bounds of the model.                                                    *)

\* the most 12-byte records a directly decoded subfile is built from
MaxRecords == 2
\* the largest declared count of a direct call of grok
MaxSize == 3

----------------------------------------------------------------------------
(* Program constants.                                                      *)

\* the record stride of grok: range(4, 12 * data_size, 12)
Stride == 12
\* the offset of the payload in a record: range(4, ...)
PayloadOffset == 4
\* the width of the payload: binary_data[offset : offset + 8]
PayloadWidth == 8

----------------------------------------------------------------------------
(* Doubles.                                                                *)

Pow2(n) == 2 ^ n

Dbl(s, e, hi, lo) == [s |-> s, e |-> e, hi |-> hi, lo |-> lo]

PosZero == Dbl(0, 0, 0, 0)
Half    == Dbl(0, 1022, 0, 0)            \* 0.5
One     == Dbl(0, 1023, 0, 0)            \* 1.0
Two     == Dbl(0, 1024, 0, 0)            \* 2.0
Tenth   == Dbl(0, 1019, 40265318, 26843546)  \* 0.1
SevenTenths == Dbl(0, 1022, 26843545, 40265318)  \* 0.7
MinusOneAndHalf == Dbl(1, 1023, 33554432, 0)     \* -1.5

\* struct.pack("d", d) on a little-endian host: the eight bytes of a double,
\* the inverse of unpack, used to build the subfiles of the archive
Pack(d) ==
    << d.lo % 256,
       (d.lo \div 256) % 256,
       (d.lo \div 65536) % 256,
       (d.lo \div 16777216) + 4 * (d.hi % 64),
       (d.hi \div 64) % 256,
       (d.hi \div 16384) % 256,
       (d.hi \div 4194304) + 16 * (d.e % 16),
       (d.e \div 16) + 128 * d.s >>

\* unpack("d", b)[0] on a little-endian host: b[8] holds the sign and the
\* high exponent bits, b[1] the lowest fraction bits
unpack(b) ==
    Dbl(b[8] \div 128,
        (b[8] % 128) * 16 + (b[7] \div 16),
        (b[7] % 16) * 4194304 + b[6] * 16384 + b[5] * 64 + (b[4] \div 4),
        (b[4] % 4) * 16777216 + b[3] * 65536 + b[2] * 256 + b[1])

----------------------------------------------------------------------------
(* Strings and subfile paths.  The host is POSIX: "/" is the only          *)
(* separator os.path knows.                                                *)

Slash     == 47
Backslash == 92
Dot       == 46
Hyphen    == 45

\* s.replace("\\", "/")
ReplaceBackslash(s) == [i \in 1..Len(s) |-> IF s[i] = Backslash THEN Slash ELSE s[i]]

\* s.replace("//", "/"): one scan from the left, no overlapping match
RECURSIVE CollapseSlashes(_)
CollapseSlashes(s) ==
    IF Len(s) < 2 THEN s
    ELSE IF s[1] = Slash /\ s[2] = Slash
         THEN <<Slash>> \o CollapseSlashes(SubSeq(s, 3, Len(s)))
         ELSE <<s[1]>> \o CollapseSlashes(Tail(s))

\* s.split("/")
RECURSIVE SplitFrom(_, _, _)
SplitFrom(s, i, word) ==
    IF i > Len(s) THEN <<word>>
    ELSE IF s[i] = Slash THEN <<word>> \o SplitFrom(s, i + 1, <<>>)
    ELSE SplitFrom(s, i + 1, Append(word, s[i]))

Split(s) == SplitFrom(s, 1, <<>>)

\* the components of posixpath.normpath: empty and "." components dropped,
\* ".." taking back the component before it (kept at the start of a
\* relative path)
RECURSIVE NormComps(_, _, _)
NormComps(comps, kept, rooted) ==
    IF comps = <<>> THEN kept
    ELSE LET c == Head(comps)
         IN  IF c = <<>> \/ c = <<Dot>> THEN NormComps(Tail(comps), kept, rooted)
             ELSE IF c # <<Dot, Dot>>
                     \/ (~ rooted /\ kept = <<>>)
                     \/ (kept # <<>> /\ kept[Len(kept)] = <<Dot, Dot>>)
                  THEN NormComps(Tail(comps), Append(kept, c), rooted)
             ELSE IF kept # <<>>
                  THEN NormComps(Tail(comps), SubSeq(kept, 1, Len(kept) - 1), rooted)
             ELSE NormComps(Tail(comps), kept, rooted)

RECURSIVE Join(_)
Join(comps) ==
    IF comps = <<>> THEN <<>>
    ELSE IF Len(comps) = 1 THEN comps[1]
    ELSE comps[1] \o <<Slash>> \o Join(Tail(comps))

\* os.path.normpath(path) on a POSIX host
normpath(path) ==
    IF path = <<>> THEN <<Dot>>
    ELSE LET slashes == IF path[1] # Slash THEN 0
                        ELSE IF Len(path) >= 2 /\ path[2] = Slash
                                /\ ~ (Len(path) >= 3 /\ path[3] = Slash) THEN 2
                        ELSE 1
             body == Join(NormComps(Split(path), <<>>, slashes > 0))
             out  == [i \in 1..slashes |-> Slash] \o body
         IN  IF out = <<>> THEN <<Dot>> ELSE out

\* index.grok's name of the subfile: os.path.normpath(file_name).replace("\\", "/")
ArchiveName(file_name) == ReplaceBackslash(normpath(file_name))

\* pascapalyze.grok's name of the subfile:
\* file_name.replace("\\", "/").replace("//", "/")
ArchiveNameScript(file_name) == CollapseSlashes(ReplaceBackslash(file_name))

----------------------------------------------------------------------------
(* The binary record decoder.                                              *)

Min(a, b) == IF a < b THEN a ELSE b
Max(a, b) == IF a > b THEN a ELSE b

\* source.read(k): at most k bytes from the start of the stream
Read(bytes, k) == SubSeq(bytes, 1, Min(k, Len(bytes)))

\* binary_data[offset : offset + 8], offset counted from 0 as in the source
Slice(bytes, offset, width) ==
    SubSeq(bytes, offset + 1, Min(offset + width, Len(bytes)))

\* a faulty decoder, which C1 tells from Numbers: the payload read from
\* offset 0 of each record
NumbersFromRecordStart(binary_data, data_size) ==
    [i \in 1..data_size |->
        unpack(Slice(binary_data, Stride * (i - 1), PayloadWidth))]

\* [unpack("d", binary_data[offset:offset + 8])[0]
\*      for offset in range(4, 12 * data_size, 12)]
Numbers(binary_data, data_size) ==
    [i \in 1..data_size |->
        unpack(Slice(binary_data, PayloadOffset + Stride * (i - 1), PayloadWidth))]

\* what a call of grok comes to: the list it returns and the diagnostic it
\* prints ("none", "length_mismatch" or "missing")
Returned(values, diag) == [called |-> TRUE, values |-> values, diag |-> diag]
NotCalled == [called |-> FALSE, values |-> <<>>, diag |-> "none"]

\* index.grok(file_name, data_size, archive)
grok(file_name, data_size, arch) ==
    IF data_size = 0 THEN Returned(<<>>, "none")
    ELSE IF ArchiveName(file_name) \notin DOMAIN arch THEN Returned(<<>>, "missing")
    ELSE LET binary_data == Read(arch[ArchiveName(file_name)], Stride * data_size)
         IN  IF binary_data = <<>> \/ Len(binary_data) # Stride * data_size
             THEN Returned(<<>>, "length_mismatch")
             ELSE Returned(Numbers(binary_data, data_size), "none")

\* pascapalyze.grok(file_name, data_size, archive): the decoded numbers are
\* returned as the single row of a list of rows
grok_script(file_name, data_size, arch) ==
    IF data_size = 0 THEN Returned(<<>>, "none")
    ELSE IF ArchiveNameScript(file_name) \notin DOMAIN arch THEN Returned(<<>>, "missing")
    ELSE LET binary_data == Read(arch[ArchiveNameScript(file_name)], Stride * data_size)
         IN  IF binary_data = <<>> \/ Len(binary_data) # Stride * data_size
             THEN Returned(<<>>, "length_mismatch")
             ELSE Returned(<<Numbers(binary_data, data_size)>>, "none")

----------------------------------------------------------------------------
(* Subfiles for the direct calls of grok.                                  *)

\* the 4-byte fields that lead a record
Headers == { <<0, 0, 0, 0>>, <<1, 2, 3, 4>>, <<0, 0, 240, 63>> }
\* the doubles a record may hold
Payloads == { PosZero, One, Tenth, MinusOneAndHalf }

RecordOf(header, d) == header \o Pack(d)

RECURSIVE Flatten(_)
Flatten(records) ==
    IF records = <<>> THEN <<>>
    ELSE RecordOf(Head(records)[1], Head(records)[2]) \o Flatten(Tail(records))

\* sequences of at most MaxRecords (header, double) pairs
RecordSeqs == UNION { [1..n -> Headers \X Payloads] : n \in 0..MaxRecords }

\* a subfile: whole records, then possibly cut short or followed by more bytes
Whole(records)   == [records |-> records, bytes |-> Flatten(records)]
CutShort(records) ==
    [records |-> records,
     bytes |-> SubSeq(Flatten(records), 1, Len(Flatten(records)) - 1)]
Longer(records, extra) == [records |-> records, bytes |-> Flatten(records) \o extra]

Subfiles ==
    { Whole(r) : r \in RecordSeqs }
    \cup { CutShort(r) : r \in RecordSeqs \ {<<>>} }
    \cup { Longer(r, <<7>>) : r \in RecordSeqs }
    \cup { Longer(r, RecordOf(<<9, 9, 9, 9>>, Two)) : r \in RecordSeqs }

----------------------------------------------------------------------------
(* Natural numbers of unbounded width, for the arithmetic on doubles: a    *)
(* sequence of 13-bit limbs, least significant first, no zero limb at its  *)
(* end (zero is the empty sequence).  An intermediate result is bound as   *)
(* the element of a singleton set, which computes it once.                 *)

Base == Pow2(13)

The(S) == CHOOSE x \in S : TRUE

\* the index of the most significant limb that is not zero
TopLimb(v) ==
    IF \A i \in 1..Len(v) : v[i] = 0 THEN 0
    ELSE CHOOSE i \in 1..Len(v) : v[i] # 0 /\ \A j \in (i + 1)..Len(v) : v[j] = 0

LNorm(x) == The({ SubSeq(v, 1, TopLimb(v)) : v \in {x} })

RECURSIVE LMulFrom(_, _, _, _)
LMulFrom(v, m, i, carry) ==
    IF i > Len(v)
    THEN The({ IF c = 0 THEN <<>>
               ELSE IF c < Base THEN <<c>>
               ELSE <<c % Base, c \div Base>> : c \in {carry} })
    ELSE The({ <<t % Base>> \o LMulFrom(v, m, i + 1, t \div Base) :
                t \in {v[i] * m + carry} })

\* x * m for a multiplier m of at most 2^13
LMulSmall(x, m) == The({ LNorm(LMulFrom(v, k, 1, 0)) : v \in {x}, k \in {m} })

RECURSIVE LAddFrom(_, _, _, _)
LAddFrom(v, w, i, carry) ==
    IF i > Len(v) /\ i > Len(w) THEN (IF carry = 0 THEN <<>> ELSE <<carry>>)
    ELSE The({ <<t % Base>> \o LAddFrom(v, w, i + 1, t \div Base) :
                t \in { (IF i <= Len(v) THEN v[i] ELSE 0)
                        + (IF i <= Len(w) THEN w[i] ELSE 0) + carry } })

LAdd(x, y) == The({ LNorm(LAddFrom(v, w, 1, 0)) : v \in {x}, w \in {y} })

RECURSIVE LSubFrom(_, _, _, _)
LSubFrom(v, w, i, borrow) ==
    IF i > Len(v) THEN <<>>
    ELSE The({ <<IF t < 0 THEN t + Base ELSE t>>
               \o LSubFrom(v, w, i + 1, IF t < 0 THEN 1 ELSE 0) :
                t \in { v[i] - (IF i <= Len(w) THEN w[i] ELSE 0) - borrow } })

\* x - y, for x >= y
LSub(x, y) == The({ LNorm(LSubFrom(v, w, 1, 0)) : v \in {x}, w \in {y} })

\* x < y
LLess(x, y) ==
    The({ IF Len(v) # Len(w) THEN Len(v) < Len(w)
          ELSE \E i \in 1..Len(v) :
                  v[i] < w[i] /\ \A j \in (i + 1)..Len(v) : v[j] = w[j] :
          v \in {x}, w \in {y} })

RECURSIVE LDivFrom(_, _, _, _)
LDivFrom(v, d, i, rem) ==
    IF i = 0 THEN [q |-> <<>>, r |-> rem]
    ELSE The({ The({ [q |-> Append(rest.q, t \div d), r |-> rest.r] :
                      rest \in { LDivFrom(v, d, i - 1, t % d) } }) :
                t \in { rem * Base + v[i] } })

\* the quotient and the remainder of x by a divisor d of at most 2^13
LDivSmall(x, d) ==
    The({ The({ [q |-> LNorm(res.q), r |-> res.r] :
                 res \in { LDivFrom(v, k, Len(v), 0) } }) : v \in {x}, k \in {d} })

\* the number of bits of a limb
BitsOf(n) == IF n = 0 THEN 0 ELSE CHOOSE k \in 1..13 : Pow2(k - 1) <= n /\ n < Pow2(k)

\* the number of bits of x
LBitLen(x) ==
    The({ IF v = <<>> THEN 0 ELSE 13 * (Len(v) - 1) + BitsOf(v[Len(v)]) : v \in {x} })

LOdd(x) == The({ v # <<>> /\ v[1] % 2 = 1 : v \in {x} })

\* x shifted right by t bits, and whether a bit that is not 0 was shifted
\* out: whole limbs are dropped, then the rest is divided by a power of 2
LShr(x, t) ==
    The({ The({ [q |-> one.q,
                 sticky |-> one.r # 0
                            \/ \E i \in 1..Min(n \div 13, Len(v)) : v[i] # 0] :
                 one \in { LDivSmall(SubSeq(v, (n \div 13) + 1, Len(v)),
                                     Pow2(n % 13)) } }) :
          v \in {x}, n \in {t} })

\* x shifted left by t bits
LShl(x, t) ==
    The({ IF v = <<>> THEN <<>>
          ELSE [i \in 1..(n \div 13) |-> 0] \o LMulSmall(v, Pow2(n % 13)) :
          v \in {x}, n \in {t} })

\* the value of a number that fits a machine integer
RECURSIVE LToIntFrom(_, _)
LToIntFrom(v, i) == IF i > Len(v) THEN 0 ELSE v[i] + Base * LToIntFrom(v, i + 1)

LToInt(x) == The({ LToIntFrom(v, 1) : v \in {x} })

RECURSIVE LFromInt(_)
LFromInt(n) == IF n = 0 THEN <<>> ELSE <<n % Base>> \o LFromInt(n \div Base)

----------------------------------------------------------------------------
(* IEEE-754 binary64 arithmetic, round to nearest, ties to even, on the    *)
(* normal numbers and zero (the model draws no subnormal, infinite or NaN  *)
(* step, and no operation of the model overflows or underflows).           *)

IsZero(d) == d.e = 0 /\ d.hi = 0 /\ d.lo = 0

\* the 53-bit significand of a normal double
Sig(d) == << d.lo % Base, d.lo \div Base, d.hi % Base, d.hi \div Base, 1 >>

\* the double of sign s, biased exponent e and 53-bit significand sig
FromSig(s, e, sig) == Dbl(s, e, sig[3] + Base * sig[4], sig[1] + Base * sig[2])

\* a significand of len > 53 bits cut to 53 bits and rounded: the bit below
\* the cut and the bits below that one (and sticky) decide
RoundLong(s, v, e, sticky, len) ==
    The({ The({ The({ IF LBitLen(rounded) = 54
                      THEN FromSig(s, e + len + 1023, LShr(rounded, 1).q)
                      ELSE FromSig(s, e + len - 1 + 1023, rounded) :
                      rounded \in { IF LOdd(q1.q)
                                       /\ (sticky \/ q1.sticky \/ LOdd(trunc))
                                    THEN LAdd(trunc, <<1>>) ELSE trunc } }) :
                 trunc \in { LShr(q1.q, 1).q } }) :
          q1 \in { LShr(v, len - 54) } })

\* the double of sign s whose value is the nearest to (m + f) * 2^e, where
\* 0 <= f < 1 and sticky tells whether f > 0
RoundToDouble(s, m, e, sticky) ==
    The({ The({ IF len <= 53
                THEN FromSig(s, e + len - 1 + 1023, LShl(v, 53 - len))
                ELSE RoundLong(s, v, e, sticky, len) :
                len \in { LBitLen(v) } }) : v \in {m} })

\* d * k for a float d and an int 0 <= k < 2^13: the int converts exactly
FMulInt(d, k) ==
    The({ IF IsZero(v) \/ k = 0 THEN Dbl(v.s, 0, 0, 0)
          ELSE RoundToDouble(v.s, LMulSmall(Sig(v), k), v.e - 1075, FALSE) :
          v \in {d} })

\* the largest digit q with q * d <= rem, from the estimate qhat >= q
RECURSIVE CorrectedDigit(_, _, _)
CorrectedDigit(rem, d, qhat) ==
    IF LLess(rem, LMulSmall(d, qhat)) THEN CorrectedDigit(rem, d, qhat - 1)
    ELSE qhat

\* the quotient of rem by d, for rem < d * 2^13 and a d whose top limb is
\* at least 2^12: the two top limbs of rem by the top limb of d estimate it
QuotientDigit(rem, d) ==
    The({ CorrectedDigit(rem, d, qhat) :
          qhat \in { Min(((IF Len(rem) > Len(d) THEN rem[Len(d) + 1] ELSE 0) * Base
                          + (IF Len(rem) >= Len(d) THEN rem[Len(d)] ELSE 0))
                         \div d[Len(d)], Base - 1) } })

\* one step of the schoolbook division by d: the next limb of the dividend
\* joins the remainder, which gives the next limb of the quotient
DivisionStep(st, limb, d) ==
    The({ The({ [q |-> <<digit>> \o st.q, rem |-> LSub(rem, LMulSmall(d, digit))] :
                 digit \in { QuotientDigit(rem, d) } }) :
          rem \in { LNorm(<<limb>> \o st.rem) } })

\* the division of n by d, from the i-th limb of n down
RECURSIVE LongDivision(_, _, _, _)
LongDivision(st, n, d, i) ==
    IF i = 0 THEN st
    ELSE The({ LongDivision(st2, n, d, i - 1) :
                st2 \in { DivisionStep(st, n[i], d) } })

\* the quotient and the remainder of n by d, d with a top limb of at least 2^12
LDivMod(n, d) ==
    The({ The({ [q |-> LNorm(res.q), r |-> res.rem] :
                 res \in { LongDivision([q |-> <<>>, rem |-> <<>>], v, w, Len(v)) } }) :
          v \in {n}, w \in {d} })

\* a / b for normal doubles that are not zero: 65 bits of the quotient of
\* the significands, rounded
FDiv(a, b) ==
    The({ The({ RoundToDouble((x.s + y.s) % 2, res.q, x.e - y.e - 65, res.r # <<>>) :
                 res \in { LDivMod(<<0, 0, 0, 0, 0>> \o LShl(Sig(x), 12),
                                   LShl(Sig(y), 12)) } }) :
          x \in {a}, y \in {b} })

\* int(d): truncation toward zero, for |d| < 2^26
Trunc(d) ==
    The({ IF v.e < 1023 THEN 0
          ELSE IF v.s = 1 THEN 0 - LToInt(LShr(Sig(v), 1075 - v.e).q)
          ELSE LToInt(LShr(Sig(v), 1075 - v.e).q) : v \in {d} })

\* an int n (|n| < 2^53, given as limbs) as a double
IntToDouble(s, n) ==
    The({ IF v = <<>> THEN Dbl(s, 0, 0, 0) ELSE RoundToDouble(s, v, 0, FALSE) :
          v \in {n} })

TenTo12 == LMulSmall(LMulSmall(LMulSmall(<<1>>, 10000), 10000), 10000)

\* the integer nearest to v * 10^12 (ties to even), for a double v that is
\* not zero and has a fraction part
ScaledBy12(v) ==
    The({ The({ IF LOdd(q1.q) /\ (q1.sticky \/ LOdd(trunc))
                THEN LAdd(trunc, <<1>>) ELSE trunc :
                trunc \in { LShr(q1.q, 1).q } }) :
          q1 \in { LShr(LMulSmall(LMulSmall(LMulSmall(Sig(v), 10000), 10000), 10000),
                        1075 - v.e - 1) } })

\* round(d, 12): the decimal with 12 places nearest to d (ties to even), then
\* the double nearest to that decimal
Round12(d) ==
    The({ IF IsZero(v) \/ v.e >= 1075 THEN v
          ELSE The({ IF n = <<>> THEN Dbl(v.s, 0, 0, 0)
                     ELSE FDiv(IntToDouble(v.s, n), IntToDouble(0, TenTo12)) :
                     n \in { ScaledBy12(v) } }) : v \in {d} })

----------------------------------------------------------------------------
(* frange and the data set assembler of index.py.                          *)

\* 0 + d, the int 0 converted to 0.0: the sum of 0.0 and -0.0 is 0.0
AddToZero(d) == IF IsZero(d) THEN PosZero ELSE d

\* what a call comes to that may raise: the exception ("none" when it
\* returns) and the value returned
Ok(value)     == [raised |-> "none", value |-> value]
Raise(raised) == [raised |-> raised, value |-> <<>>]

\* int((stop - start) / step) with start = 0, for a step that is not zero
RangeLength(stop, step) ==
    IF IsZero(stop) THEN 0 ELSE Trunc(FDiv(stop, step))

\* frange(0, stop, step): ZeroDivisionError for the step 0.0
frange(stop, step) ==
    IF IsZero(step) THEN Raise("ZeroDivisionError")
    ELSE Ok([index \in 1..RangeLength(stop, step) |->
                Round12(AddToZero(FMulInt(step, index - 1)))])

\* the independent source of a channel: a subfile path (a str) or a step
\* (a float)
PathSource(path) == [type |-> "str", path |-> path, step |-> PosZero]
StepSource(step) == [type |-> "float", path |-> <<>>, step |-> step]

\* the steps and the counts of the model's channels
Steps == { PosZero, Half, Tenth, SevenTenths, MinusOneAndHalf }

\* the largest declared count of a channel
MaxCount == 3

\* list(frange(0, x_values * data_size, x_values)), computed once for every
\* step and count of the model
StepRanges ==
    [a \in Steps \X (0..MaxCount) |-> frange(FMulInt(a[1], a[2]), a[1])]

StepRange(step, data_size) ==
    IF <<step, data_size>> \in DOMAIN StepRanges THEN StepRanges[<<step, data_size>>]
    ELSE frange(FMulInt(step, data_size), step)

\* DataSet.__init__(name, x_values, y_values, data_size, channel_id_name,
\* archive) with an archive: the object, the diagnostics its two decodes
\* printed, and the exception that ended the construction
DataSetInit(name, x_values, y_values, data_size, channel_id_name, arch) ==
    The({ IF x.raised # "none" THEN Raise(x.raised)
          ELSE The({ Ok([name |-> name,
                         x_values |-> x.value.values,
                         y_values |-> y.values,
                         data_size |-> data_size,
                         channel_id_name |-> channel_id_name,
                         x_diag |-> x.value.diag,
                         y_diag |-> y.diag]) :
                     y \in { grok(y_values, data_size, arch) } }) :
          x \in { IF x_values.type = "str"
                  THEN Ok(grok(x_values.path, data_size, arch))
                  ELSE The({ IF range.raised # "none" THEN Raise(range.raised)
                             ELSE Ok(Returned(range.value, "none")) :
                             range \in { StepRange(x_values.step, data_size) } }) } })


----------------------------------------------------------------------------
(* The manifest.  An attribute is absent, or holds a text that is no       *)
(* number, or holds a literal.                                             *)

AbsentInt   == [kind |-> "absent", v |-> 0]
TextInt     == [kind |-> "text", v |-> 0]
IntLit(v)   == [kind |-> "int", v |-> v]

AbsentFloat == [kind |-> "absent", d |-> PosZero]
TextFloat   == [kind |-> "text", d |-> PosZero]
FloatLit(d) == [kind |-> "float", d |-> d]

AbsentName  == [kind |-> "absent", path |-> <<>>]
Name(path)  == [kind |-> "str", path |-> path]

\* int(attribute): TypeError for None, ValueError for a text that is no integer
int(attr) ==
    IF attr.kind = "absent" THEN Raise("TypeError")
    ELSE IF attr.kind = "text" THEN Raise("ValueError")
    ELSE Ok(attr.v)

\* float(attribute)
float(attr) ==
    IF attr.kind = "absent" THEN Raise("TypeError")
    ELSE IF attr.kind = "text" THEN Raise("ValueError")
    ELSE Ok(attr.d)

\* a DataSet element: its DataGroupNumber, and of its DataSegmentElement the
\* DependentStorageElement's DataCacheDataSize and FileName and the
\* IndependentStorageElement's FileName and IntervalCacheInterval
DataSetElement(group, size, dependent, independent, interval) ==
    [DataGroupNumber |-> group, DataCacheDataSize |-> size,
     DependentFileName |-> dependent, IndependentFileName |-> independent,
     IntervalCacheInterval |-> interval]

\* a DataSource element: its two names (the empty string for no
\* ChannelIDName) and its DataSet children
DataSource(measurement_name, channel_id_name, sets) ==
    [MeasurementName |-> measurement_name, ChannelIDName |-> channel_id_name,
     sets |-> sets]

----------------------------------------------------------------------------
(* CapstoneFile.process_archive of index.py.  The dict data_sets is the    *)
(* sequence of its items in insertion order, each a group number and the   *)
(* list of its data sets.                                                  *)

Keys(dict) == { dict[i].key : i \in 1..Len(dict) }

IndexOf(dict, key) == CHOOSE i \in 1..Len(dict) : dict[i].key = key

\* if not group_number in data_sets: data_sets[group_number] = []
\* data_sets[group_number].append(item)
AppendTo(dict, key, item) ==
    The({ IF key \in Keys(d)
          THEN [d EXCEPT ![IndexOf(d, key)].value = Append(@, item)]
          ELSE Append(d, [key |-> key, value |-> <<item>>]) : d \in {dict} })

\* the attributes of one DataSet element, read in the order of the source;
\* the first conversion that raises ends the reading
ReadElement(el) ==
    LET group_number == int(el.DataGroupNumber)
        data_size    == int(el.DataCacheDataSize)
        interval     == float(el.IntervalCacheInterval)
        \* "if not independent_file_name": None and "" alike
        no_file      == el.IndependentFileName.kind = "absent"
                        \/ el.IndependentFileName.path = <<>>
    IN  IF group_number.raised # "none" THEN Raise(group_number.raised)
        ELSE IF data_size.raised # "none" THEN Raise(data_size.raised)
        ELSE IF no_file /\ interval.raised # "none" THEN Raise(interval.raised)
        ELSE Ok([group_number |-> group_number.value,
                 data_size |-> data_size.value,
                 dependent_file_name |-> el.DependentFileName,
                 independent_file_name |->
                     IF no_file THEN StepSource(interval.value)
                     ELSE PathSource(el.IndependentFileName.path)])

\* the body of the loop over the DataSet elements of one DataSource, from
\* the i-th on: acc is [raised, value: data_sets]
RECURSIVE ProcessDataSets(_, _, _, _)
ProcessDataSets(acc, source, i, arch) ==
    IF i > Len(source.sets) THEN acc
    ELSE LET el == ReadElement(source.sets[i])
             \* grok(None, ...) with a size that is not 0: os.path.normpath(None)
             no_dependent == el.raised = "none"
                             /\ el.value.dependent_file_name.kind = "absent"
                             /\ el.value.data_size # 0
             made == DataSetInit(source.MeasurementName,
                                 el.value.independent_file_name,
                                 el.value.dependent_file_name.path,
                                 el.value.data_size,
                                 source.ChannelIDName, arch)
         IN  IF el.raised # "none" THEN Raise(el.raised)
             ELSE IF made.raised # "none" THEN Raise(made.raised)
             ELSE IF no_dependent THEN Raise("TypeError")
             ELSE The({ ProcessDataSets(data_sets, source, i + 1, arch) :
                         data_sets \in { Ok(AppendTo(acc.value, el.value.group_number,
                                                     made.value)) } })

\* the loop over the DataSource elements, from the i-th on; a DataSource
\* with no DataSet child is passed over
RECURSIVE ProcessSources(_, _, _, _)
ProcessSources(acc, sources, i, arch) ==
    IF acc.raised # "none" \/ i > Len(sources) THEN acc
    ELSE The({ ProcessSources(data_sets, sources, i + 1, arch) :
                data_sets \in { ProcessDataSets(acc, sources[i], 1, arch) } })

\* CapstoneFile.process_archive(self): the dict it returns, or the exception
\* it raises
process_archive(sources, arch) == ProcessSources(Ok(<<>>), sources, 1, arch)


----------------------------------------------------------------------------
(* CapstoneFile.to_csv of index.py.  A cell of the table is a str or a     *)
(* float.                                                                  *)

StrCell(s)   == [type |-> "str", s |-> s, d |-> PosZero]
FloatCell(d) == [type |-> "float", s |-> <<>>, d |-> d]
EmptyCell    == StrCell(<<>>)

\* str(n) for an int n
RECURSIVE Digits(_)
Digits(n) == IF n < 10 THEN <<48 + n>> ELSE Digits(n \div 10) \o <<48 + (n % 10)>>

IntToStr(n) == IF n < 0 THEN <<Hyphen>> \o Digits(0 - n) ELSE Digits(n)

\* f"Group {group_id}"
GroupTitle(group_id) == <<71, 114, 111, 117, 112, 32>> \o IntToStr(group_id)

\* f"Group {group_id} (empty)"
EmptyGroupTitle(group_id) ==
    GroupTitle(group_id) \o <<32, 40, 101, 109, 112, 116, 121, 41>>

FloatCells(values) == [i \in 1..Len(values) |-> FloatCell(values[i])]

\* column_x and column_y of one data set; x_values and y_values are lists
\* for every data set built from an archive
ColumnX(data_set) == <<EmptyCell, StrCell(data_set.name)>> \o FloatCells(data_set.x_values)
ColumnY(data_set) == <<EmptyCell, EmptyCell>> \o FloatCells(data_set.y_values)

\* the columns of the data sets of one group, from the i-th on
RECURSIVE DataSetColumns(_, _)
DataSetColumns(group, i) ==
    IF i > Len(group) THEN <<>>
    ELSE <<ColumnX(group[i]), ColumnY(group[i])>> \o DataSetColumns(group, i + 1)

\* whether no data set of a group holds a value
NoValues(group) ==
    \A i \in 1..Len(group) : group[i].x_values = <<>> /\ group[i].y_values = <<>>

\* a variant of GroupColumns, which C12 tells from it: the title goes to a
\* column of its own when no data set of the group holds a value
ColumnsOrPlaceholder(group_id, group) ==
    IF NoValues(group)
    THEN << <<StrCell(EmptyGroupTitle(group_id))>> >>
    ELSE [DataSetColumns(group, 1) EXCEPT ![1][1] = StrCell(GroupTitle(group_id))]

\* the columns of one group: the title goes to the first cell of the first
\* column, or to a column of its own when the group has none
GroupColumns(group_id, group) ==
    The({ IF columns # <<>> /\ columns[1] # <<>>
          THEN [columns EXCEPT ![1][1] = StrCell(GroupTitle(group_id))]
          ELSE Append(columns, <<StrCell(EmptyGroupTitle(group_id))>>) :
          columns \in { DataSetColumns(group, 1) } })

\* whether the string a sorts before the string b: the first code that
\* differs decides, and a proper prefix sorts first
RECURSIVE StrLessFrom(_, _, _)
StrLessFrom(a, b, i) ==
    IF i > Len(b) THEN FALSE
    ELSE IF i > Len(a) THEN TRUE
    ELSE IF a[i] # b[i] THEN a[i] < b[i]
    ELSE StrLessFrom(a, b, i + 1)

StrLess(a, b) == StrLessFrom(a, b, 1)

\* sorted(items, key=lambda item: item[0]) for int keys: a stable sort, by
\* insertion of the n-th item into the first n - 1 sorted
RECURSIVE InsertByNumber(_, _)
InsertByNumber(sorted, item) ==
    The({ IF s = <<>> THEN <<item>>
          ELSE IF item.key < Head(s).key THEN <<item>> \o s
          ELSE <<Head(s)>> \o InsertByNumber(Tail(s), item) : s \in {sorted} })

RECURSIVE SortByNumber(_, _)
SortByNumber(items, n) ==
    IF n = 0 THEN <<>>
    ELSE InsertByNumber(SortByNumber(items, n - 1), items[n])

\* sorted(items, key=lambda item: item[0]) for str keys
RECURSIVE InsertByString(_, _)
InsertByString(sorted, item) ==
    The({ IF s = <<>> THEN <<item>>
          ELSE IF StrLess(item.key, Head(s).key) THEN <<item>> \o s
          ELSE <<Head(s)>> \o InsertByString(Tail(s), item) : s \in {sorted} })

RECURSIVE SortByString(_, _)
SortByString(items, n) ==
    IF n = 0 THEN <<>>
    ELSE InsertByString(SortByString(items, n - 1), items[n])

\* a variant of GroupItems, which C8 tells from it: the groups by ascending
\* group number and the data sets of each by ascending name
GroupItemsSorted(data_sets) ==
    LET Named(group) == [j \in 1..Len(group) |-> [key |-> group[j].name, value |-> group[j]]]
        ByName(group) ==
            The({ [j \in 1..Len(named) |-> named[j].value] :
                  named \in { SortByString(Named(group), Len(group)) } })
    IN  The({ [i \in 1..Len(by_number) |->
                 [key |-> by_number[i].key, value |-> ByName(by_number[i].value)]] :
              by_number \in { SortByNumber(data_sets, Len(data_sets)) } })

\* self.data_sets.items(): the groups in the order of their insertion
GroupItems(data_sets) == data_sets

\* original_table before the padding: the columns of every group
RECURSIVE TableColumns(_, _)
TableColumns(items, i) ==
    IF i > Len(items) THEN <<>>
    ELSE GroupColumns(items[i].key, items[i].value) \o TableColumns(items, i + 1)

RECURSIVE MaxLen(_, _)
MaxLen(columns, i) ==
    IF i > Len(columns) THEN 1 ELSE Max(Len(columns[i]), MaxLen(columns, i + 1))

\* a variant of MaxColumnLength, which C11 tells from it: the length of
\* the first column only
FirstColumnLength(columns) == IF columns = <<>> THEN 1 ELSE Len(columns[1])

\* max_column_length: 1, or the length of the longest column
MaxColumnLength(columns) == MaxLen(columns, 1)

\* a column extended with empty cells to the length n
Padded(column, n) == column \o [i \in 1..(n - Len(column)) |-> EmptyCell]

\* a cell as to_csv writes it: str(cell), and for a float the "." of
\* str(cell) replaced by the decimal separator
Rendered(cell, decimal_separator) ==
    [type |-> cell.type, s |-> cell.s, d |-> cell.d,
     point |-> IF cell.type = "float" THEN decimal_separator ELSE <<>>]

SeparatorToken(cell_separator) ==
    [type |-> "separator", s |-> cell_separator, d |-> PosZero, point |-> <<>>]

\* cell_separator.join(...) over one row: the cells of the row from the
\* column_index-th column on, the cell separator between two of them
RECURSIVE RowTokens(_, _, _, _, _)
RowTokens(table, row_index, column_index, decimal_separator, cell_separator) ==
    IF column_index > Len(table) THEN <<>>
    ELSE (IF column_index > 1 THEN <<SeparatorToken(cell_separator)>> ELSE <<>>)
         \o <<Rendered(table[column_index][row_index], decimal_separator)>>
         \o RowTokens(table, row_index, column_index + 1,
                      decimal_separator, cell_separator)

\* CapstoneFile.to_csv(decimal_separator, cell_separator): the rows of the
\* text it returns, which are joined by newlines; each row is the join of
\* its cells, then one more cell separator
to_csv(data_sets, decimal_separator, cell_separator) ==
    The({ The({ The({ [row_index \in 1..max_column_length |->
                         RowTokens(original_table, row_index, 1,
                                   decimal_separator, cell_separator)
                         \o <<SeparatorToken(cell_separator)>>] :
                      original_table \in
                          { [c \in 1..Len(columns) |->
                                Padded(columns[c], max_column_length)] } }) :
                 max_column_length \in { MaxColumnLength(columns) } }) :
          columns \in { TableColumns(GroupItems(data_sets), 1) } })


----------------------------------------------------------------------------
(* process_archive of pascapalyze.py: the index, a dict of dicts, and the  *)
(* line-table export, one file per group.  The manifests of the model hold *)
(* no ZRSIndividualRenederer element, so the curve fit parameters, which   *)
(* nothing reads, stay empty.                                              *)

\* measurment_name + ("-" + channel_id_name if channel_id_name else "")
Label(source) ==
    source.MeasurementName
    \o (IF source.ChannelIDName # <<>> THEN <<Hyphen>> \o source.ChannelIDName
        ELSE <<>>)

\* dict[key] = value: a key the dict holds keeps its place and takes the
\* new value
Put(dict, key, value) ==
    The({ IF key \in Keys(d)
          THEN [d EXCEPT ![IndexOf(d, key)].value = value]
          ELSE Append(d, [key |-> key, value |-> value]) : d \in {dict} })

\* if not group_number in data_sets: data_sets[group_number] = {}
\* data_sets[group_number][label] = item
PutChannel(dict, group_number, label, item) ==
    The({ IF group_number \in Keys(d)
          THEN [d EXCEPT ![IndexOf(d, group_number)].value = Put(@, label, item)]
          ELSE Append(d, [key |-> group_number, value |-> Put(<<>>, label, item)]) :
          d \in {dict} })

RECURSIVE IndexDataSets(_, _, _)
IndexDataSets(acc, source, i) ==
    IF i > Len(source.sets) THEN acc
    ELSE LET el == ReadElement(source.sets[i])
         IN  IF el.raised # "none" THEN Raise(el.raised)
             ELSE The({ IndexDataSets(data_sets, source, i + 1) :
                         data_sets \in
                            { Ok(PutChannel(acc.value, el.value.group_number,
                                            Label(source),
                                            [x_data |-> el.value.independent_file_name,
                                             y_data |-> el.value.dependent_file_name,
                                             data_size |-> el.value.data_size])) } })

RECURSIVE IndexSources(_, _, _)
IndexSources(acc, sources, i) ==
    IF acc.raised # "none" \/ i > Len(sources) THEN acc
    ELSE The({ IndexSources(data_sets, sources, i + 1) :
                data_sets \in { IndexDataSets(acc, sources[i], 1) } })

\* the first loop of process_archive: data_sets, or the exception raised
script_index(sources) == IndexSources(Ok(<<>>), sources, 1)

\* a value of the tabulated body: a float, or the int 0 that pads a short row
IntCell(n) == [type |-> "int", s |-> IntToStr(n), d |-> PosZero]

RECURSIVE LongestRow(_, _)
LongestRow(array, i) ==
    IF i > Len(array) THEN 0 ELSE Max(Len(array[i]), LongestRow(array, i + 1))

\* transpose(array): the sublists extended with 0 to the length of the
\* longest, then zipped
transpose(array) ==
    IF array = <<>> THEN <<>>
    ELSE [line \in 1..LongestRow(array, 1) |->
            [k \in 1..Len(array) |->
                IF line <= Len(array[k]) THEN FloatCell(array[k][line])
                ELSE IntCell(0)]]

\* format_tabulated_data(data): the lines "{line[0]}\t{line[1]}\n";
\* IndexError for a line of fewer than two values
format_tabulated_data(data) ==
    The({ IF transposed_data # <<>> /\ Len(data) < 2 THEN Raise("IndexError")
          ELSE Ok([line \in 1..Len(transposed_data) |->
                      <<transposed_data[line][1], transposed_data[line][2]>>]) :
          transposed_data \in { transpose(data) } })

\* grok of the script on a file name of the manifest: None has no replace
GrokName(name, data_size, arch) ==
    IF data_size # 0 /\ name.kind = "absent" THEN Raise("AttributeError")
    ELSE Ok(grok_script(name.path, data_size, arch))

\* legend_index += 1, which comes before the channel is decoded
NextLegend(legend_index) == legend_index + 1

\* combined_data of one channel of a declared size that is not 0
CombinedData(item, arch) ==
    LET y == GrokName(item.y_data, item.data_size, arch)
        x == grok_script(item.x_data.path, item.data_size, arch)
    IN  IF item.x_data.type = "float"
        THEN IF y.raised # "none" THEN Raise(y.raised)
             ELSE IF y.value.values = <<>> THEN Ok(<<>>)
             ELSE Ok(<< [i \in 1..Len(y.value.values[1]) |->
                            FMulInt(item.x_data.step, i - 1)] >>
                     \o y.value.values)
        ELSE IF y.raised # "none" THEN Raise(y.raised)
             ELSE Ok(x.values \o y.value.values)

\* the body of the loop over the channels of one group, from the i-th of
\* the sorted items on: acc is [raised, sections, legend_index, failed]
\* a channel whose combined_data is a list that is not empty: its section
\* is written, unless the formatting raises
WriteSection(acc, label, combined_data) ==
    The({ IF body.raised # "none" THEN [acc EXCEPT !.raised = body.raised]
          ELSE [acc EXCEPT !.legend_index = NextLegend(acc.legend_index),
                           !.sections = Append(@, [legend_index |-> acc.legend_index,
                                                   label |-> label,
                                                   body |-> body.value])] :
          body \in { format_tabulated_data(combined_data) } })

\* the body of the loop over the channels for one channel of a declared
\* size that is not 0
ExportChannel(acc, label, item, arch) ==
    The({ IF combined_data.raised # "none"
          THEN [acc EXCEPT !.raised = combined_data.raised]
          ELSE IF combined_data.value = <<>>
          THEN [acc EXCEPT !.legend_index = NextLegend(acc.legend_index),
                           !.failed = IF item.x_data.type = "float" THEN @
                                      ELSE Append(@, label)]
          ELSE WriteSection(acc, label, combined_data.value) :
          combined_data \in { CombinedData(item, arch) } })

\* the loop over the channels of one group, from the i-th of the sorted
\* items on: acc is [raised, sections, legend_index, failed]
RECURSIVE ExportChannels(_, _, _, _)
ExportChannels(acc, channels, i, arch) ==
    IF acc.raised # "none" \/ i > Len(channels) THEN acc
    ELSE IF channels[i].value.data_size = 0
    THEN ExportChannels(acc, channels, i + 1, arch)
    ELSE The({ ExportChannels(done, channels, i + 1, arch) :
                done \in { ExportChannel(acc, channels[i].key, channels[i].value,
                                         arch) } })

\* a variant of ChannelItems, which C9 tells from it: the channels in the
\* order of the manifest
ChannelItemsUnsorted(group_data) == group_data

\* sorted(group_data.items(), key=lambda item: item[0])
ChannelItems(group_data) == SortByString(group_data, Len(group_data))

\* sorted(data_sets.items(), key=lambda item: item[0])
GroupsInOrder(data_sets) == SortByNumber(data_sets, Len(data_sets))

\* the loop over the groups, from the i-th of the sorted items on: acc is
\* [raised, files], a file being written when its group is done
RECURSIVE ExportGroups(_, _, _, _)
ExportGroups(acc, groups, i, arch) ==
    IF acc.raised # "none" \/ i > Len(groups) THEN acc
    ELSE The({ IF done.raised # "none" THEN [acc EXCEPT !.raised = done.raised]
               ELSE ExportGroups(
                       [acc EXCEPT !.files = Append(@,
                           [group_number |-> groups[i].key,
                            sections |-> done.sections,
                            failed |-> done.failed])],
                       groups, i + 1, arch) :
               done \in { ExportChannels(
                             [raised |-> "none", sections |-> <<>>,
                              legend_index |-> 0, failed |-> <<>>],
                             ChannelItems(groups[i].value), 1, arch) } })

\* process_archive(archive, output_directory) of pascapalyze.py: the index
\* it built, the files it wrote in the order of their writing, and the
\* exception that ended it
script_process_archive(sources, arch) ==
    The({ IF data_sets.raised # "none"
          THEN [raised |-> data_sets.raised, data_sets |-> <<>>, files |-> <<>>]
          ELSE The({ [raised |-> out.raised, data_sets |-> data_sets.value,
                      files |-> out.files] :
                     out \in { ExportGroups([raised |-> "none", files |-> <<>>],
                                            GroupsInOrder(data_sets.value), 1,
                                            arch) } }) :
          data_sets \in { script_index(sources) } })


----------------------------------------------------------------------------
(* The archive and the manifests of the model.                             *)

\* "x1", "x2", ...: the independent subfile of n records 0.0, 1.0, ...
XName(n) == <<120, 48 + n>>
\* "y1", "y2", ...: the dependent subfile of n records -1.5, -3.0, ...
YName(n) == <<121, 48 + n>>
\* "s": a subfile of two records less one byte
ShortName == <<115>>
\* "d/y2", a subfile in a directory, which the manifest names "d\y2"
NestedName == <<100, Slash, 121, 50>>
NestedNameInManifest == <<100, Backslash, 121, 50>>
\* "m": a name the archive does not hold
MissingName == <<109>>

XRecords(n) == [i \in 1..n |-> << <<i, 0, 0, 255>>, IntToDouble(0, LFromInt(i - 1)) >>]
YRecords(n) == [i \in 1..n |-> << <<0, i, 7, 0>>, FMulInt(MinusOneAndHalf, i) >>]

TheArchive ==
    [name \in {XName(n) : n \in 1..MaxCount} \cup {YName(n) : n \in 1..MaxCount}
              \cup {ShortName, NestedName} |->
        IF name = ShortName THEN CutShort(YRecords(2)).bytes
        ELSE IF name = NestedName THEN Flatten(YRecords(2))
        ELSE IF name[1] = 120 THEN Flatten(XRecords(name[2] - 48))
        ELSE Flatten(YRecords(name[2] - 48))]

\* the DataSet elements of the model's manifests
FilesElement ==
    DataSetElement(IntLit(1), IntLit(2), Name(YName(2)), Name(XName(2)), AbsentFloat)
StepElement ==
    DataSetElement(IntLit(2), IntLit(2), Name(NestedNameInManifest), AbsentName,
                   FloatLit(Half))
SevenTenthsElement ==
    DataSetElement(IntLit(1), IntLit(3), Name(YName(3)), AbsentName,
                   FloatLit(SevenTenths))
ZeroStepElement ==
    DataSetElement(IntLit(2), IntLit(2), Name(YName(2)), Name(<<>>),
                   FloatLit(PosZero))
MissingDependentElement ==
    DataSetElement(IntLit(1), IntLit(2), Name(MissingName), Name(XName(2)), AbsentFloat)
ShortDependentElement ==
    DataSetElement(IntLit(2), IntLit(2), Name(ShortName), AbsentName, FloatLit(Half))
EmptyElement ==
    DataSetElement(IntLit(2), IntLit(0), Name(YName(2)), Name(XName(2)), AbsentFloat)
LongerSubfilesElement ==
    DataSetElement(IntLit(3), IntLit(1), Name(YName(2)), Name(XName(2)), AbsentFloat)
BadGroupElement ==
    DataSetElement(TextInt, IntLit(2), Name(YName(2)), Name(XName(2)), AbsentFloat)
NoSizeElement ==
    DataSetElement(IntLit(1), AbsentInt, Name(YName(2)), Name(XName(2)), AbsentFloat)
NoIndependentElement ==
    DataSetElement(IntLit(1), IntLit(2), Name(YName(2)), AbsentName, AbsentFloat)
BadIntervalElement ==
    DataSetElement(IntLit(2), IntLit(2), Name(YName(2)), AbsentName, TextFloat)

Elements ==
    { FilesElement, StepElement, SevenTenthsElement, ZeroStepElement,
      MissingDependentElement, ShortDependentElement, EmptyElement,
      LongerSubfilesElement, BadGroupElement, NoSizeElement,
      NoIndependentElement, BadIntervalElement }

\* the DataSet children of a DataSource: none, one, or one of two pairs
ElementLists ==
    { <<>> } \cup { <<el>> : el \in Elements }
    \cup { <<StepElement, FilesElement>>, <<FilesElement, FilesElement>> }

\* MeasurementName and ChannelIDName: "B" with no channel id, "A" with "X"
SourceNames == { << <<66>>, <<>> >>, << <<65>>, <<88>> >> }

Sources ==
    { DataSource(names[1], names[2], sets) :
        names \in SourceNames, sets \in ElementLists }

\* the most DataSource elements of a manifest
MaxSources == 2

Manifests == UNION { [1..n -> Sources] : n \in 0..MaxSources }

----------------------------------------------------------------------------
(* The state machines.                                                     *)

NoCall == [file_name |-> <<>>, data_size |-> 0]
NoArgs == [x_values |-> PathSource(<<>>), y_values |-> <<>>, data_size |-> 0]
NotMade == [state |-> "none", raised |-> "none", value |-> <<>>]
NotBuilt == [state |-> "none", raised |-> "none", data_sets |-> <<>>]
NoCsv == [called |-> FALSE, rows |-> <<>>]
NotRun == [state |-> "none", raised |-> "none", data_sets |-> <<>>, files |-> <<>>]

\* the name of the subfile of a direct call of grok
CallName == <<102>>

\* a direct call of grok: the archive holds the subfile or is empty
InitGrok ==
    /\ \E sub \in Subfiles :
          /\ contents = sub.records
          /\ archive \in { [name \in {CallName} |-> sub.bytes],
                           [name \in {} |-> <<>>] }
    /\ call \in [file_name : {CallName}, data_size : 0..MaxSize]
    /\ ret_index = NotCalled /\ ret_script = NotCalled
    /\ ds_args = NoArgs /\ ds_made = NotMade
    /\ manifest = <<>> /\ capstone = NotBuilt /\ csv = NoCsv /\ script = NotRun

\* index.grok is called
GrokIndex ==
    /\ call # NoCall /\ ~ ret_index.called
    /\ ret_index' = grok(call.file_name, call.data_size, archive)
    /\ UNCHANGED <<archive, call, ret_script, ds_args, ds_made, manifest,
                   capstone, csv, script, contents>>

\* pascapalyze.grok is called
GrokScript ==
    /\ call # NoCall /\ ~ ret_script.called
    /\ ret_script' = grok_script(call.file_name, call.data_size, archive)
    /\ UNCHANGED <<archive, call, ret_index, ds_args, ds_made, manifest,
                   capstone, csv, script, contents>>

NextGrok == GrokIndex \/ GrokScript

SpecGrok == InitGrok /\ [][NextGrok]_vars

\* the direct construction of a DataSet over the archive of the model
InitDataSet ==
    /\ archive = TheArchive
    /\ \E n \in 0..MaxCount :
          ds_args \in [x_values : {StepSource(s) : s \in Steps}
                                   \cup {PathSource(XName(Max(n, 1))),
                                         PathSource(MissingName)},
                       y_values : {YName(Max(n, 1)), MissingName, ShortName},
                       data_size : {n}]
    /\ ds_made = NotMade
    /\ call = NoCall /\ ret_index = NotCalled /\ ret_script = NotCalled
    /\ contents = <<>>
    /\ manifest = <<>> /\ capstone = NotBuilt /\ csv = NoCsv /\ script = NotRun

\* DataSet(name, x_values, y_values, data_size, None, archive)
NewDataSet ==
    /\ ds_args # NoArgs /\ ds_made.state = "none"
    /\ \E made \in { DataSetInit(<<66>>, ds_args.x_values, ds_args.y_values,
                                  ds_args.data_size, <<>>, archive) } :
          ds_made' = [state |-> IF made.raised = "none" THEN "made" ELSE "raised",
                      raised |-> made.raised, value |-> made.value]
    /\ UNCHANGED <<archive, call, ret_index, ret_script, ds_args, manifest,
                   capstone, csv, script, contents>>

NextDataSet == NewDataSet

SpecDataSet == InitDataSet /\ [][NextDataSet]_vars

\* an archive with its manifest, before either program reads it
Init ==
    /\ archive = TheArchive
    /\ manifest \in Manifests
    /\ capstone = NotBuilt /\ csv = NoCsv /\ script = NotRun
    /\ call = NoCall /\ ret_index = NotCalled /\ ret_script = NotCalled
    /\ ds_args = NoArgs /\ ds_made = NotMade /\ contents = <<>>

\* CapstoneFile.__init__: self.data_sets = self.process_archive()
CapstoneFileInit ==
    /\ capstone.state = "none"
    /\ \E built \in { process_archive(manifest, archive) } :
          capstone' = [state |-> IF built.raised = "none" THEN "built" ELSE "raised",
                       raised |-> built.raised, data_sets |-> built.value]
    /\ UNCHANGED <<archive, call, ret_index, ret_script, ds_args, ds_made,
                   manifest, csv, script, contents>>

\* the separators of a call of to_csv: "." and ";" (the defaults), "," and a tab
Separators == { << <<Dot>>, <<59>> >>, << <<44>>, <<9>> >> }

\* CapstoneFile.to_csv(decimal_separator, cell_separator) on the object built
ToCsv ==
    /\ capstone.state = "built" /\ ~ csv.called
    /\ \E seps \in Separators :
          csv' = [called |-> TRUE,
                  rows |-> to_csv(capstone.data_sets, seps[1], seps[2])]
    /\ UNCHANGED <<archive, call, ret_index, ret_script, ds_args, ds_made,
                   manifest, capstone, script, contents>>

\* pascapalyze.process_archive(archive, output_directory)
ScriptProcessArchive ==
    /\ script.state = "none"
    /\ \E run \in { script_process_archive(manifest, archive) } :
          script' = [state |-> IF run.raised = "none" THEN "done" ELSE "raised",
                     raised |-> run.raised, data_sets |-> run.data_sets,
                     files |-> run.files]
    /\ UNCHANGED <<archive, call, ret_index, ret_script, ds_args, ds_made,
                   manifest, capstone, csv, contents>>

Next == CapstoneFileInit \/ ToCsv \/ ScriptProcessArchive

Spec == Init /\ [][Next]_vars

----------------------------------------------------------------------------
(* The decoder: C1 and C2, under SpecGrok.                                 *)

\* the declared count of the call
DeclaredCount == call.data_size

\* the archive holds the subfile of the call
SubfilePresent == CallName \in DOMAIN archive

\* the double stored in bytes 12 * i + 4 .. 12 * i + 11 of a buffer, i from 0
StoredDouble(bytes, i) == unpack(SubSeq(bytes, 12 * i + 5, 12 * i + 12))

\* values holds the DeclaredCount doubles stored in the subfile, which for
\* the records the subfile was built from are the payloads of the records
DecodedFrom(values) ==
    /\ Len(values) = DeclaredCount
    /\ \A i \in 0..(DeclaredCount - 1) :
          values[i + 1] = StoredDouble(archive[CallName], i)
    /\ \A i \in 1..Min(DeclaredCount, Len(contents)) : values[i] = contents[i][2]

C2_MismatchReturnsEmpty ==
    (DeclaredCount > 0 /\ SubfilePresent
        /\ Len(archive[CallName]) # 12 * DeclaredCount)
    => /\ ret_index.called =>
            ret_index.values = <<>> /\ ret_index.diag = "length_mismatch"
       /\ ret_script.called =>
            ret_script.values = <<>> /\ ret_script.diag = "length_mismatch"

----------------------------------------------------------------------------
(* The fixed-step range: C3, under SpecDataSet.                            *)

\* C3: a DataSet assembled from a fixed step s and a declared count n has
\* the x_values [0, s, ..., (n-1)s]: exactly n terms, the k-th being k * s
\* rounded to 12 decimal places.
C3_FixedStepRange ==
    (ds_made.state = "made" /\ ds_args.x_values.type = "float")
    => /\ Len(ds_made.value.x_values) = ds_args.data_size
       /\ \A k \in 0..(ds_args.data_size - 1) :
             ds_made.value.x_values[k + 1]
                = Round12(AddToZero(FMulInt(ds_args.x_values.step, k)))

----------------------------------------------------------------------------
(* The manifest as the properties of the two programs read it.             *)

\* the DataSet elements of the manifest in document order, each with its
\* DataSource
RECURSIVE ChannelsFrom(_, _)
ChannelsFrom(sources, i) ==
    IF i > Len(sources) THEN <<>>
    ELSE [j \in 1..Len(sources[i].sets) |->
             [source |-> sources[i], el |-> sources[i].sets[j]]]
         \o ChannelsFrom(sources, i + 1)

Channels == ChannelsFrom(manifest, 1)

\* the element has no FileName on its independent storage element
NoIndependentFile(el) ==
    el.IndependentFileName.kind = "absent" \/ el.IndependentFileName.path = <<>>

\* malformed attributes: a group number or a size that is no integer, or
\* neither a FileName nor a numeric IntervalCacheInterval
Malformed(el) ==
    \/ el.DataGroupNumber.kind # "int"
    \/ el.DataCacheDataSize.kind # "int"
    \/ NoIndependentFile(el) /\ el.IntervalCacheInterval.kind # "float"

FixedStep(el) == NoIndependentFile(el) /\ el.IntervalCacheInterval.kind = "float"

ZeroStep(el) == FixedStep(el) /\ IsZero(el.IntervalCacheInterval.d)

\* the manifest holds no malformed element
WellFormed == \A i \in 1..Len(Channels) : ~ Malformed(Channels[i].el)

\* the manifest holds no fixed step of 0.0
NoZeroStep == \A i \in 1..Len(Channels) : ~ ZeroStep(Channels[i].el)

\* the well-formed channels of group g in document order
InGroup(g) ==
    SelectSeq(Channels, LAMBDA c : ~ Malformed(c.el) /\ c.el.DataGroupNumber.v = g)

\* the group numbers of the well-formed channels
GroupNumbers ==
    { Channels[i].el.DataGroupNumber.v :
        i \in { j \in 1..Len(Channels) : ~ Malformed(Channels[j].el) } }

\* dict.get(key, [])
GroupOf(dict, key) == IF key \in Keys(dict) THEN dict[IndexOf(dict, key)].value ELSE <<>>

\* the subfile a file name refers to is in the archive with exactly 12 * n bytes
Intact(name, n) ==
    /\ name.kind = "str"
    /\ ArchiveName(name.path) \in DOMAIN archive
    /\ Len(archive[ArchiveName(name.path)]) = 12 * n

\* the dependent subfile of a well-formed element of a size that is not 0
\* is not in the archive
DependentAbsent(el) ==
    /\ ~ Malformed(el) /\ el.DataCacheDataSize.v > 0
    /\ el.DependentFileName.kind = "str"
    /\ ArchiveName(el.DependentFileName.path) \notin DOMAIN archive

----------------------------------------------------------------------------
(* The assembler and the index: C4, C5, C6 and C10, under Spec.            *)

\* C4: a channel of a declared count n > 0 whose subfiles are in the archive
\* with exactly 12 * n bytes each gives a DataSet with len(x_values) =
\* len(y_values) = n, for an x source that is a subfile and for one that is
\* a fixed step.
C4_IntactChannelsAligned ==
    capstone.state = "built" =>
        \A g \in GroupNumbers :
            \A j \in 1..Min(Len(InGroup(g)), Len(GroupOf(capstone.data_sets, g))) :
                LET el == InGroup(g)[j].el
                    n == el.DataCacheDataSize.v
                    data_set == GroupOf(capstone.data_sets, g)[j]
                IN  (/\ n > 0
                     /\ Intact(el.DependentFileName, n)
                     /\ FixedStep(el) \/ Intact(el.IndependentFileName, n))
                    => Len(data_set.x_values) = n /\ Len(data_set.y_values) = n

\* C5: a data-set element with malformed attributes is skipped: no
\* exception leaves process_archive, and every group holds its well-formed
\* channels, one fewer for each malformed element.
C5_MalformedSkipped ==
    ((\E i \in 1..Len(Channels) : Malformed(Channels[i].el)) /\ NoZeroStep)
    => /\ capstone.state # "none" =>
            /\ capstone.state = "built"
            /\ \A g \in GroupNumbers :
                  Len(GroupOf(capstone.data_sets, g)) = Len(InGroup(g))
       /\ script.state # "none" => script.raised \notin {"TypeError", "ValueError"}

\* C6: with a channel whose dependent subfile is not in the archive, the
\* channel's y_values is empty and both exporters run to their end: the
\* line-table export raises nothing and writes a file for every group.
C6_AbsentDependentTolerated ==
    ((\E i \in 1..Len(Channels) : DependentAbsent(Channels[i].el))
        /\ WellFormed /\ NoZeroStep)
    => /\ capstone.state # "none" =>
            /\ capstone.state = "built"
            /\ \A g \in GroupNumbers :
                  \A j \in 1..Min(Len(InGroup(g)),
                                  Len(GroupOf(capstone.data_sets, g))) :
                      DependentAbsent(InGroup(g)[j].el)
                      => GroupOf(capstone.data_sets, g)[j].y_values = <<>>
       /\ script.state # "none" =>
            /\ script.state = "done"
            /\ \A g \in GroupNumbers :
                  \E f \in 1..Len(script.files) : script.files[f].group_number = g

\* C10: two channels of one group with the same display name are both kept:
\* the group holds one entry per data-set element, in document order.
C10_DuplicateNamesKept ==
    WellFormed
    => /\ capstone.state = "built" =>
            \A g \in GroupNumbers :
                [j \in 1..Len(GroupOf(capstone.data_sets, g)) |->
                    GroupOf(capstone.data_sets, g)[j].name]
                = [j \in 1..Len(InGroup(g)) |-> InGroup(g)[j].source.MeasurementName]
       /\ script.state # "none" =>
            \A g \in GroupNumbers :
                Len(GroupOf(script.data_sets, g)) = Len(InGroup(g))

----------------------------------------------------------------------------
(* The line-table export: C7 and C9, under Spec.                           *)

\* C7: the legend indices of the channels written to a group's file are
\* 0, 1, 2, ... in the order of their writing: a skipped channel takes none.
C7_LegendIndicesDense ==
    \A f \in 1..Len(script.files) :
        \A j \in 1..Len(script.files[f].sections) :
            script.files[f].sections[j].legend_index = j - 1

\* the files are written in ascending order of their group numbers
FilesAscending ==
    \A f \in 1..Len(script.files) : \A h \in (f + 1)..Len(script.files) :
        script.files[f].group_number < script.files[h].group_number

\* the place in the manifest of the first channel of group g with the label
Discovery(g, label) ==
    CHOOSE i \in 1..Len(Channels) :
        /\ Channels[i].el.DataGroupNumber.v = g /\ Label(Channels[i].source) = label
        /\ \A j \in 1..(i - 1) :
              ~ (Channels[j].el.DataGroupNumber.v = g
                 /\ Label(Channels[j].source) = label)

\* C9 (as amended): the line-table export writes the groups in ascending
\* order of their group numbers and, within a group, the channels in
\* ascending order of their display names.
C9_ChannelsByName ==
    /\ FilesAscending
    /\ \A f \in 1..Len(script.files) :
          \A j \in 1..Len(script.files[f].sections) :
              \A k \in (j + 1)..Len(script.files[f].sections) :
                  StrLess(script.files[f].sections[j].label,
                          script.files[f].sections[k].label)

\* C9 (as the specification states it): the groups in ascending order of
\* their group numbers and, within a group, the channels in the order of
\* their discovery in the manifest.
C9_ChannelsByDiscovery ==
    /\ FilesAscending
    /\ \A f \in 1..Len(script.files) :
          \A j \in 1..Len(script.files[f].sections) :
              \A k \in (j + 1)..Len(script.files[f].sections) :
                  Discovery(script.files[f].group_number,
                            script.files[f].sections[j].label)
                  < Discovery(script.files[f].group_number,
                              script.files[f].sections[k].label)

\* a run that wrote two files, one of them with two channels of which the
\* one the manifest lists last is written first
C9_Witness ==
    /\ script.state = "done" /\ Len(script.files) = 2
    /\ \E f \in 1..Len(script.files) :
          /\ Len(script.files[f].sections) = 2
          /\ Discovery(script.files[f].group_number, script.files[f].sections[1].label)
             > Discovery(script.files[f].group_number, script.files[f].sections[2].label)

----------------------------------------------------------------------------
(* The delimited-table export: C8, under Spec.                             *)

\* the group numbers of a well-formed manifest in the order of their first
\* appearance, from the i-th channel on
RECURSIVE FirstAppearances(_, _)
FirstAppearances(i, seen) ==
    IF i > Len(Channels) THEN <<>>
    ELSE IF Channels[i].el.DataGroupNumber.v \in seen
         THEN FirstAppearances(i + 1, seen)
    ELSE <<Channels[i].el.DataGroupNumber.v>>
         \o FirstAppearances(i + 1, seen \cup {Channels[i].el.DataGroupNumber.v})

\* the numbers of a set in ascending order
RECURSIVE Ascending(_)
Ascending(numbers) ==
    IF numbers = {} THEN <<>>
    ELSE LET least == CHOOSE n \in numbers : \A m \in numbers : n <= m
         IN  <<least>> \o Ascending(numbers \ {least})

\* the strings of a sequence in ascending order
RECURSIVE AscendingNames(_)
AscendingNames(names) ==
    IF names = <<>> THEN <<>>
    ELSE LET k == CHOOSE k \in 1..Len(names) :
                     \A j \in 1..Len(names) : ~ StrLess(names[j], names[k])
         IN  <<names[k]>>
             \o AscendingNames(SubSeq(names, 1, k - 1) \o SubSeq(names, k + 1, Len(names)))

\* the names of the data sets of group g in document order
NamesOf(g) ==
    LET channels == InGroup(g)
    IN  [j \in 1..Len(channels) |-> channels[j].source.MeasurementName]

\* the groups and the names of their data sets as the manifest lists them
DiscoveryLayout ==
    LET groups == FirstAppearances(1, {})
    IN  [i \in 1..Len(groups) |-> [key |-> groups[i], names |-> NamesOf(groups[i])]]

\* the groups by ascending group number, the names of each in ascending order
SortedLayout ==
    LET groups == Ascending(GroupNumbers)
    IN  [i \in 1..Len(groups) |->
            [key |-> groups[i], names |-> AscendingNames(NamesOf(groups[i]))]]

\* the first row of the table for a layout: over the two columns of each
\* data set, the title of the group over the first data set of the group
RECURSIVE TitleRow(_, _)
TitleRow(layout, i) ==
    IF i > Len(layout) THEN <<>>
    ELSE [c \in 1..(2 * Len(layout[i].names)) |->
             IF c = 1 THEN GroupTitle(layout[i].key) ELSE <<>>]
         \o TitleRow(layout, i + 1)

\* the second row: the name of each data set over the first of its columns
RECURSIVE NameRow(_, _)
NameRow(layout, i) ==
    IF i > Len(layout) THEN <<>>
    ELSE [c \in 1..(2 * Len(layout[i].names)) |->
             IF c % 2 = 1 THEN layout[i].names[(c + 1) \div 2] ELSE <<>>]
         \o NameRow(layout, i + 1)

\* the cells of a row of the text to_csv returned, none for a row it has not
CsvCells(row) ==
    IF row > Len(csv.rows) THEN <<>>
    ELSE [c \in 1..(Len(csv.rows[row]) \div 2) |-> csv.rows[row][2 * c - 1].s]

\* C8 (as amended): to_csv lays out the groups in the order in which the
\* manifest first lists their group numbers and, within a group, the data
\* sets in document order.
C8_CsvInManifestOrder ==
    csv.called => LET layout == DiscoveryLayout
                  IN  /\ CsvCells(1) = TitleRow(layout, 1)
                      /\ CsvCells(2) = NameRow(layout, 1)

\* C8 (as the specification states it): to_csv lays out the groups in
\* ascending order of their group numbers and, within a group, the data
\* sets in ascending order of their names.
C8_CsvSorted ==
    csv.called => LET layout == SortedLayout
                  IN  /\ CsvCells(1) = TitleRow(layout, 1)
                      /\ CsvCells(2) = NameRow(layout, 1)

\* a table of two groups which the manifest lists in descending order of
\* their numbers, one of them with its names in descending order
C8_Witness ==
    /\ csv.called /\ Len(DiscoveryLayout) = 2
    /\ DiscoveryLayout[1].key > DiscoveryLayout[2].key
    /\ \E i \in 1..2 :
          /\ Len(DiscoveryLayout[i].names) = 2
          /\ StrLess(DiscoveryLayout[i].names[2], DiscoveryLayout[i].names[1])

----------------------------------------------------------------------------
(* The grid of the delimited-table export: C11, under Spec.                *)

\* the data sets of the object built, group after group as the dict holds
\* them, from the i-th group on
RECURSIVE DataSetsFrom(_, _)
DataSetsFrom(data_sets, i) ==
    IF i > Len(data_sets) THEN <<>>
    ELSE data_sets[i].value \o DataSetsFrom(data_sets, i + 1)

BuiltDataSets == DataSetsFrom(capstone.data_sets, 1)

\* the length of the longest x_values or y_values of the data sets from the
\* i-th on, 0 for none
RECURSIVE LongestValues(_, _)
LongestValues(sets, i) ==
    IF i > Len(sets) THEN 0
    ELSE Max(Max(Len(sets[i].x_values), Len(sets[i].y_values)),
             LongestValues(sets, i + 1))

\* a row of the text: as many cells as cells says, a cell separator after
\* each, the same separator everywhere, and no separator for a cell
RowOfCells(row, cells) ==
    /\ Len(row) = 2 * cells
    /\ \A c \in 1..cells :
          /\ row[2 * c - 1].type # "separator"
          /\ row[2 * c] = csv.rows[1][Len(csv.rows[1])]
    /\ csv.rows[1][Len(csv.rows[1])].type = "separator"

\* the cell of a column of values in the row-th row below the two header
\* rows: the value as a float, or an empty cell once the values have ended
ValueCell(cell, values, row) ==
    IF row <= Len(values)
    THEN cell.type = "float" /\ cell.d = values[row]
    ELSE cell.type = "str" /\ cell.s = <<>>

\* the k-th data set fills the columns 2k - 1 (x_values) and 2k (y_values)
\* of the rows below the header rows
ColumnsOfDataSets(sets) ==
    \A k \in 1..Len(sets) : \A row \in 1..(Len(csv.rows) - 2) :
        /\ ValueCell(csv.rows[row + 2][4 * k - 3], sets[k].x_values, row)
        /\ ValueCell(csv.rows[row + 2][4 * k - 1], sets[k].y_values, row)

\* the grid of a table of at least one data set
GridOf(sets) ==
    /\ Len(csv.rows) = 2 + LongestValues(sets, 1)
    /\ \A r \in 1..Len(csv.rows) : RowOfCells(csv.rows[r], 2 * Len(sets))
    /\ ColumnsOfDataSets(sets)

\* C11 (as amended): the output of to_csv for at least one data set is a
\* rectangular grid: two adjacent columns per data set (x, then y), every
\* column padded with empty cells to the height of the table, so every row
\* has two cells per data set, each followed by the cell separator, and the
\* rows are 2 plus the length of the longest x_values or y_values; for no
\* data set the output is one row that holds the cell separator alone.
C11_RectangularGrid ==
    csv.called =>
        LET sets == BuiltDataSets
        IN  IF sets = <<>>
            THEN Len(csv.rows) = 1 /\ Len(csv.rows[1]) = 1
                 /\ csv.rows[1][1].type = "separator"
            ELSE GridOf(sets)

\* C11 (as the specification states it): the grid, with 2 plus the length
\* of the longest x_values or y_values as the number of rows of every
\* output.
C11_GridOfEveryTable ==
    csv.called => GridOf(BuiltDataSets)

\* a table of two data sets in which a column of two values stands next to
\* one of three
C11_Witness ==
    /\ csv.called /\ Len(BuiltDataSets) = 2
    /\ Len(csv.rows) = 5
    /\ \E k \in 1..2 : Len(BuiltDataSets[k].y_values) = 3
    /\ \E k \in 1..2 : Len(BuiltDataSets[k].x_values) = 2

----------------------------------------------------------------------------
(* The titles of the groups in the delimited-table export: C12, under      *)
(* Spec.                                                                   *)

\* the first row with the title of every group stamped in the first of the
\* two columns of its first data set, from the i-th group on
RECURSIVE StampedTitles(_, _)
StampedTitles(data_sets, i) ==
    IF i > Len(data_sets) THEN <<>>
    ELSE [c \in 1..(2 * Len(data_sets[i].value)) |->
             IF c = 1 THEN GroupTitle(data_sets[i].key) ELSE <<>>]
         \o StampedTitles(data_sets, i + 1)

\* the first row with one column titled "Group n (empty)" for every group
\* none of whose data sets holds a value, and the stamped title for the
\* other groups
RECURSIVE TitlesWithPlaceholders(_, _)
TitlesWithPlaceholders(data_sets, i) ==
    IF i > Len(data_sets) THEN <<>>
    ELSE (IF NoValues(data_sets[i].value)
          THEN <<EmptyGroupTitle(data_sets[i].key)>>
          ELSE [c \in 1..(2 * Len(data_sets[i].value)) |->
                   IF c = 1 THEN GroupTitle(data_sets[i].key) ELSE <<>>])
         \o TitlesWithPlaceholders(data_sets, i + 1)

\* C12 (as amended): every group of the object built from an archive holds
\* at least one data set, and to_csv stamps "Group n" in the header cell of
\* the first column of every group, also of a group all of whose channels
\* decoded to empty sequences, which keeps the two columns of each of its
\* data sets; no output holds a "Group n (empty)" column.
C12_EveryGroupStamped ==
    csv.called =>
        /\ \A i \in 1..Len(capstone.data_sets) : capstone.data_sets[i].value # <<>>
        /\ CsvCells(1) = StampedTitles(capstone.data_sets, 1)
        /\ \A r \in 1..Len(csv.rows) : \A c \in 1..Len(CsvCells(r)) :
               \A i \in 1..Len(capstone.data_sets) :
                   CsvCells(r)[c] # EmptyGroupTitle(capstone.data_sets[i].key)

\* C12 (as the specification states it): a group none of whose data sets
\* holds a value is one column titled "Group n (empty)", and every other
\* group has "Group n" in the header cell of its first column.
C12_EmptyGroupPlaceholder ==
    csv.called => CsvCells(1) = TitlesWithPlaceholders(capstone.data_sets, 1)

\* a table of two groups, one of which has a data set with values and the
\* other only data sets without any
C12_Witness ==
    /\ csv.called /\ Len(capstone.data_sets) = 2
    /\ \E i \in 1..2 : NoValues(capstone.data_sets[i].value)
    /\ \E i \in 1..2 : ~NoValues(capstone.data_sets[i].value)

====
